---- MODULE Spec2Model ----
(***************************************************************************)
(* Text chunking and reassembly engine of english-to-hindi-roman:          *)
(*   utility/file_splitter.py  split_text_into_chunks, split_file          *)
(*   utility/file_merger.py    get_numbered_files, merge_files             *)
(*   utility/generic_file_splitter.py  split_file_generic                  *)
(*   utility/generic_file_merger.py    merge_any_folder                    *)
(*                                                                         *)
(* Spec            sequences of calls on a file system that does not fail  *)
(* SpecIO          one call on a file system whose system calls can fail   *)
(* SpecConcurrent  two split_file calls interleaved step by step           *)
(*                                                                         *)
(* A text is a sequence of one-character strings.  Positions inside the    *)
(* chunker are 0-based as in the Python source; the character at Python    *)
(* position p of text is text[p + 1].  A file holds the text that a        *)
(* text-mode read of it returns.  A file name is a sequence of characters, *)
(* so that formatting an index into "{i}.txt" and parsing it back with     *)
(* the regular expression of get_numbered_files are computed, not assumed. *)
(***************************************************************************)
EXTENDS Integers, Sequences, FiniteSets, TLC

VARIABLES fs, call, res, ncalls, repeated, procs, lastWriter, loop

vars == <<fs, call, res, ncalls, repeated, procs, lastWriter, loop>>

(***************************************************************************)
(* Bounds of the model and constants of the program.                       *)
(***************************************************************************)
MaxLen == 3

MaxChars == 3

MaxFiles == 1

MaxCalls == 2

SearchWindow == 200

MaxFileChars == 300000

(***************************************************************************)
(* Characters and strings.                                                 *)
(***************************************************************************)
Whitespace == {" ", "\t", "\n", "\r", "\f"}

Alphabet == {"a", " ", "."}

Max(S) == CHOOSE x \in S : \A y \in S : y <= x

Min2(a, b) == IF a <= b THEN a ELSE b

Max2(a, b) == IF a >= b THEN a ELSE b

RECURSIVE LStart(_, _)
LStart(s, i) == IF i <= Len(s) /\ s[i] \in Whitespace THEN LStart(s, i + 1) ELSE i

RECURSIVE REnd(_, _)
REnd(s, j) == IF j >= 1 /\ s[j] \in Whitespace THEN REnd(s, j - 1) ELSE j

\* str.strip(): the text without its leading and trailing whitespace.
Strip(s) == SubSeq(s, LStart(s, 1), REnd(s, Len(s)))

\* str.rfind(sub, start, end): highest 0-based index i with start <= i and
\* i + len(sub) <= end where sub occurs, or -1.
RFind(text, sub, start, end) ==
    LET cands == {i \in start..(end - Len(sub)) :
                     SubSeq(text, i + 1, i + Len(sub)) = sub}
    IN  IF cands = {} THEN -1 ELSE Max(cands)

RECURSIVE Join_NoSeparator(_, _)
\* Join that leaves the separator out
Join_NoSeparator(sep, pieces) ==
    IF pieces = <<>> THEN <<>>
    ELSE IF Len(pieces) = 1 THEN pieces[1]
    ELSE pieces[1] \o Join_NoSeparator(sep, Tail(pieces))

RECURSIVE Join(_, _)
\* separator.join(pieces)
Join(sep, pieces) ==
    IF pieces = <<>> THEN <<>>
    ELSE IF Len(pieces) = 1 THEN pieces[1]
    ELSE pieces[1] \o sep \o Join(sep, Tail(pieces))

(***************************************************************************)
(* split_text_into_chunks (file_splitter.py).                              *)
(***************************************************************************)
\* EndPos with the candidate end one character too far
EndPos_Overrun(text, max_chars, current_pos) ==
    LET end_pos == Min2(current_pos + max_chars + 1, Len(text))
    IN  IF end_pos < Len(text)
        THEN LET search_start == Max2(current_pos, end_pos - SearchWindow)
                 last_sentence ==
                     Max2(RFind(text, <<".", " ">>, search_start, end_pos),
                          Max2(RFind(text, <<"!", " ">>, search_start, end_pos),
                               RFind(text, <<"?", " ">>, search_start, end_pos)))
                 last_space == RFind(text, <<" ">>, search_start, end_pos)
             IN  IF last_sentence # -1 /\ last_sentence > current_pos
                 THEN last_sentence + 1
                 ELSE IF last_space # -1 /\ last_space > current_pos
                      THEN last_space
                      ELSE end_pos
        ELSE end_pos

\* EndPos with the sentence terminator left out of the slice
EndPos_DropPunct(text, max_chars, current_pos) ==
    LET end_pos == Min2(current_pos + max_chars, Len(text))
    IN  IF end_pos < Len(text)
        THEN LET search_start == Max2(current_pos, end_pos - SearchWindow)
                 last_sentence ==
                     Max2(RFind(text, <<".", " ">>, search_start, end_pos),
                          Max2(RFind(text, <<"!", " ">>, search_start, end_pos),
                               RFind(text, <<"?", " ">>, search_start, end_pos)))
                 last_space == RFind(text, <<" ">>, search_start, end_pos)
             IN  IF last_sentence # -1 /\ last_sentence > current_pos
                 THEN last_sentence
                 ELSE IF last_space # -1 /\ last_space > current_pos
                      THEN last_space
                      ELSE end_pos
        ELSE end_pos

\* EndPos that looks for a boundary also when the candidate end is the end
\* of the text
EndPos_AlwaysSearch(text, max_chars, current_pos) ==
    LET end_pos == Min2(current_pos + max_chars, Len(text))
        search_start == Max2(current_pos, end_pos - SearchWindow)
        last_sentence ==
            Max2(RFind(text, <<".", " ">>, search_start, end_pos),
                 Max2(RFind(text, <<"!", " ">>, search_start, end_pos),
                      RFind(text, <<"?", " ">>, search_start, end_pos)))
        last_space == RFind(text, <<" ">>, search_start, end_pos)
    IN  IF last_sentence # -1 /\ last_sentence > current_pos
        THEN last_sentence + 1
        ELSE IF last_space # -1 /\ last_space > current_pos
             THEN last_space
             ELSE end_pos

\* EndPos without the fallback to the last space
EndPos_NoWordSearch(text, max_chars, current_pos) ==
    LET end_pos == Min2(current_pos + max_chars, Len(text))
    IN  IF end_pos < Len(text)
        THEN LET search_start == Max2(current_pos, end_pos - SearchWindow)
                 last_sentence ==
                     Max2(RFind(text, <<".", " ">>, search_start, end_pos),
                          Max2(RFind(text, <<"!", " ">>, search_start, end_pos),
                               RFind(text, <<"?", " ">>, search_start, end_pos)))
             IN  IF last_sentence # -1 /\ last_sentence > current_pos
                 THEN last_sentence + 1
                 ELSE end_pos
        ELSE end_pos

\* EndPos that prefers the last space to the last sentence end
EndPos_WordFirst(text, max_chars, current_pos) ==
    LET end_pos == Min2(current_pos + max_chars, Len(text))
    IN  IF end_pos < Len(text)
        THEN LET search_start == Max2(current_pos, end_pos - SearchWindow)
                 last_sentence ==
                     Max2(RFind(text, <<".", " ">>, search_start, end_pos),
                          Max2(RFind(text, <<"!", " ">>, search_start, end_pos),
                               RFind(text, <<"?", " ">>, search_start, end_pos)))
                 last_space == RFind(text, <<" ">>, search_start, end_pos)
             IN  IF last_space # -1 /\ last_space > current_pos
                 THEN last_space
                 ELSE IF last_sentence # -1 /\ last_sentence > current_pos
                      THEN last_sentence + 1
                      ELSE end_pos
        ELSE end_pos

\* EndPos accepting a sentence match that starts at the cursor
EndPos_AtCursor(text, max_chars, current_pos) ==
    LET end_pos == Min2(current_pos + max_chars, Len(text))
    IN  IF end_pos < Len(text)
        THEN LET search_start == Max2(current_pos, end_pos - SearchWindow)
                 last_sentence ==
                     Max2(RFind(text, <<".", " ">>, search_start, end_pos),
                          Max2(RFind(text, <<"!", " ">>, search_start, end_pos),
                               RFind(text, <<"?", " ">>, search_start, end_pos)))
                 last_space == RFind(text, <<" ">>, search_start, end_pos)
             IN  IF last_sentence # -1 /\ last_sentence >= current_pos
                 THEN last_sentence + 1
                 ELSE IF last_space # -1 /\ last_space > current_pos
                      THEN last_space
                      ELSE end_pos
        ELSE end_pos

\* EndPos whose hard cut takes the rest of the text
EndPos_HardCutToEnd(text, max_chars, current_pos) ==
    LET end_pos == Min2(current_pos + max_chars, Len(text))
    IN  IF end_pos < Len(text)
        THEN LET search_start == Max2(current_pos, end_pos - SearchWindow)
                 last_sentence ==
                     Max2(RFind(text, <<".", " ">>, search_start, end_pos),
                          Max2(RFind(text, <<"!", " ">>, search_start, end_pos),
                               RFind(text, <<"?", " ">>, search_start, end_pos)))
                 last_space == RFind(text, <<" ">>, search_start, end_pos)
             IN  IF last_sentence # -1 /\ last_sentence > current_pos
                 THEN last_sentence + 1
                 ELSE IF last_space # -1 /\ last_space > current_pos
                      THEN last_space
                      ELSE Len(text)
        ELSE end_pos

\* EndPos accepting a space at the cursor as the word boundary
EndPos_SpaceAtCursor(text, max_chars, current_pos) ==
    LET end_pos == Min2(current_pos + max_chars, Len(text))
    IN  IF end_pos < Len(text)
        THEN LET search_start == Max2(current_pos, end_pos - SearchWindow)
                 last_sentence ==
                     Max2(RFind(text, <<".", " ">>, search_start, end_pos),
                          Max2(RFind(text, <<"!", " ">>, search_start, end_pos),
                               RFind(text, <<"?", " ">>, search_start, end_pos)))
                 last_space == RFind(text, <<" ">>, search_start, end_pos)
             IN  IF last_sentence # -1 /\ last_sentence > current_pos
                 THEN last_sentence + 1
                 ELSE IF last_space # -1 /\ last_space >= current_pos
                      THEN last_space
                      ELSE end_pos
        ELSE end_pos

\* EndPos searching one position before the window
EndPos_WiderWindow(text, max_chars, current_pos) ==
    LET end_pos == Min2(current_pos + max_chars, Len(text))
    IN  IF end_pos < Len(text)
        THEN LET search_start == Max2(current_pos, end_pos - SearchWindow - 1)
                 last_sentence ==
                     Max2(RFind(text, <<".", " ">>, search_start, end_pos),
                          Max2(RFind(text, <<"!", " ">>, search_start, end_pos),
                               RFind(text, <<"?", " ">>, search_start, end_pos)))
                 last_space == RFind(text, <<" ">>, search_start, end_pos)
             IN  IF last_sentence # -1 /\ last_sentence > current_pos
                 THEN last_sentence + 1
                 ELSE IF last_space # -1 /\ last_space > current_pos
                      THEN last_space
                      ELSE end_pos
        ELSE end_pos

\* One iteration of the loop: the end position of the slice that starts at
\* current_pos.
EndPos(text, max_chars, current_pos) ==
    LET end_pos == Min2(current_pos + max_chars, Len(text))
    IN  IF end_pos < Len(text)
        THEN LET search_start == Max2(current_pos, end_pos - SearchWindow)
                 last_sentence ==
                     Max2(RFind(text, <<".", " ">>, search_start, end_pos),
                          Max2(RFind(text, <<"!", " ">>, search_start, end_pos),
                               RFind(text, <<"?", " ">>, search_start, end_pos)))
                 last_space == RFind(text, <<" ">>, search_start, end_pos)
             IN  IF last_sentence # -1 /\ last_sentence > current_pos
                 THEN last_sentence + 1
                 ELSE IF last_space # -1 /\ last_space > current_pos
                      THEN last_space
                      ELSE end_pos
        ELSE end_pos

RECURSIVE SplitLoop_NoStrip(_, _, _, _)
\* SplitLoop without the strip() of the slice
SplitLoop_NoStrip(text, max_chars, current_pos, chunks) ==
    IF current_pos < Len(text)
    THEN LET end_pos == EndPos(text, max_chars, current_pos)
             chunk   == SubSeq(text, current_pos + 1, end_pos)
         IN  SplitLoop_NoStrip(text, max_chars, end_pos,
                               IF chunk # <<>> THEN Append(chunks, chunk) ELSE chunks)
    ELSE chunks

RECURSIVE SplitLoop_SkipBoundary(_, _, _, _)
\* SplitLoop that moves the cursor one character past the end of the slice
SplitLoop_SkipBoundary(text, max_chars, current_pos, chunks) ==
    IF current_pos < Len(text)
    THEN LET end_pos == EndPos(text, max_chars, current_pos)
             chunk   == Strip(SubSeq(text, current_pos + 1, end_pos))
         IN  SplitLoop_SkipBoundary(text, max_chars, end_pos + 1,
                                    IF chunk # <<>> THEN Append(chunks, chunk) ELSE chunks)
    ELSE chunks

RECURSIVE SplitLoop_KeepEmpty(_, _, _, _)
\* SplitLoop appending every stripped slice, the empty ones too
SplitLoop_KeepEmpty(text, max_chars, current_pos, chunks) ==
    IF current_pos < Len(text)
    THEN LET end_pos == EndPos(text, max_chars, current_pos)
             chunk   == Strip(SubSeq(text, current_pos + 1, end_pos))
         IN  SplitLoop_KeepEmpty(text, max_chars, end_pos, Append(chunks, chunk))
    ELSE chunks

RECURSIVE SplitLoop(_, _, _, _)
SplitLoop(text, max_chars, current_pos, chunks) ==
    IF current_pos < Len(text)
    THEN LET end_pos == EndPos(text, max_chars, current_pos)
             chunk   == Strip(SubSeq(text, current_pos + 1, end_pos))
         IN  SplitLoop(text, max_chars, end_pos,
                       IF chunk # <<>> THEN Append(chunks, chunk) ELSE chunks)
    ELSE chunks

split_text_into_chunks(text, max_chars) == SplitLoop(text, max_chars, 0, <<>>)

RECURSIVE SliceEndsFrom(_, _, _)
\* the successive values of current_pos after the first: where each slice ends
SliceEndsFrom(text, max_chars, current_pos) ==
    IF current_pos < Len(text)
    THEN LET end_pos == EndPos(text, max_chars, current_pos)
         IN  <<end_pos>> \o SliceEndsFrom(text, max_chars, end_pos)
    ELSE <<>>

SliceEnds(text, max_chars) == SliceEndsFrom(text, max_chars, 0)

(***************************************************************************)
(* File names.                                                             *)
(***************************************************************************)
Digits == <<"0", "1", "2", "3", "4", "5", "6", "7", "8", "9">>

DigitSet == {Digits[k] : k \in 1..10}

DigitVal(c) == (CHOOSE k \in 1..10 : Digits[k] = c) - 1

RECURSIVE FormatInt(_)
\* f"{i}": the decimal digits of a natural number
FormatInt(n) ==
    IF n < 10 THEN <<Digits[n + 1]>>
    ELSE Append(FormatInt(n \div 10), Digits[(n % 10) + 1])

RECURSIVE ParseInt(_)
\* int(digits)
ParseInt(ds) ==
    IF ds = <<>> THEN 0
    ELSE 10 * ParseInt(SubSeq(ds, 1, Len(ds) - 1)) + DigitVal(ds[Len(ds)])

DotTxt == <<".", "t", "x", "t">>

\* f"{i}.txt"
SegmentName(i) == FormatInt(i) \o DotTxt

MergedName == <<"m", "e", "r", "g", "e", "d">> \o DotTxt

\* rglob("*.txt"): the entries below the folder at any depth
GlobTxt_Recursive(name) ==
    /\ Len(name) >= Len(DotTxt)
    /\ SubSeq(name, Len(name) - Len(DotTxt) + 1, Len(name)) = DotTxt

\* glob("*.txt") on the path of an entry relative to the folder: "*" does
\* not match across "/", so only immediate entries are yielded
GlobTxt(name) ==
    /\ Len(name) >= Len(DotTxt)
    /\ SubSeq(name, Len(name) - Len(DotTxt) + 1, Len(name)) = DotTxt
    /\ \A k \in 1..Len(name) : name[k] # "/"

\* file_path.name: the last component of a path
BaseName(name) ==
    SubSeq(name, Max({0} \cup {k \in 1..Len(name) : name[k] = "/"}) + 1, Len(name))

\* re.match(r'^(\d+)\.txt$', name)
MatchNumbered(name) ==
    /\ GlobTxt(name)
    /\ Len(name) > Len(DotTxt)
    /\ \A k \in 1..(Len(name) - Len(DotTxt)) : name[k] \in DigitSet

\* int(match.group(1))
FileNumber(name) == ParseInt(SubSeq(name, 1, Len(name) - Len(DotTxt)))

(***************************************************************************)
(* The file system: three directories, each missing, a regular file or a   *)
(* directory of regular files, and "top", the directory that holds them.   *)
(* A path is <<dir>> or <<dir, name>>; a name with "/" is the relative     *)
(* path of a file inside a subfolder.                                      *)
(***************************************************************************)
Dirs == {"in", "story", "out", "top"}

NoEntries == [n \in {} |-> <<>>]

Missing == [kind |-> "missing", entries |-> NoEntries]

PlainFile == [kind |-> "file", entries |-> NoEntries]

Dir(entries) == [kind |-> "dir", entries |-> entries]

Exists(f, p) ==
    IF Len(p) = 1 THEN f[p[1]].kind # "missing"
    ELSE f[p[1]].kind = "dir" /\ p[2] \in DOMAIN f[p[1]].entries

IsFile(f, p) ==
    IF Len(p) = 1 THEN f[p[1]].kind = "file"
    ELSE f[p[1]].kind = "dir" /\ p[2] \in DOMAIN f[p[1]].entries

IsDir(f, p) == Len(p) = 1 /\ f[p[1]].kind = "dir"

\* open(p, 'r').read()
ReadText(f, p) == f[p[1]].entries[p[2]]

\* open(p, 'w').write(text): creates or overwrites d/name
WriteText(f, d, name, text) ==
    [f EXCEPT ![d].entries = (name :> text) @@ f[d].entries]

\* Path.mkdir(parents=True, exist_ok=True) on an absent or existing directory
MkDir(f, d) == IF f[d].kind = "missing" THEN [f EXCEPT ![d] = Dir(NoEntries)] ELSE f

Failure(msg, arg) == [success |-> FALSE, error |-> <<msg, arg>>]

(***************************************************************************)
(* Exceptions.  The try block of an operation gives the file system it     *)
(* leaves and either the returned dictionary or the exception it raised;   *)
(* io names the system calls that fail during the call.                    *)
(***************************************************************************)
NoFault == [unreadable |-> {}, mkdir_fails |-> FALSE, write_fails_at |-> 0,
            cwd_fails |-> FALSE]

Raised(f, e) == [fs |-> f, res |-> [raised |-> e]]

Raises(r) == "raised" \in DOMAIN r.res

\* Except that lets the exception go on to the caller
Except_Propagates(r, msg) == r

\* except Exception as e: return {"success": False, "error": f"{msg}{e}"}
Except(r, msg) ==
    IF Raises(r) THEN [fs |-> r.fs, res |-> Failure(msg, r.res.raised)] ELSE r

\* MkDirRaises as mkdir without exist_ok=True
MkDirRaises_ExistNotOk(f, d) == f[d].kind # "missing"

\* Path.mkdir(parents=True, exist_ok=True) raises FileExistsError when the
\* path exists and is not a directory
MkDirRaises(f, d) == f[d].kind = "file"

(***************************************************************************)
(* split_file (file_splitter.py).  The operator gives the file system and  *)
(* the returned dictionary after the call.                                 *)
(***************************************************************************)
RECURSIVE WriteChunks_FromZero(_, _, _, _)
\* WriteChunks numbering the files from 0 (enumerate without start=1)
WriteChunks_FromZero(f, d, chunks, i) ==
    IF i > Len(chunks) THEN f
    ELSE WriteChunks_FromZero(WriteText(f, d, SegmentName(i - 1), chunks[i]), d, chunks, i + 1)

RECURSIVE WriteChunks(_, _, _, _)
\* for i, chunk in enumerate(chunks, start=1): write {i}.txt
WriteChunks(f, d, chunks, i) ==
    IF i > Len(chunks) THEN f
    ELSE WriteChunks(WriteText(f, d, SegmentName(i), chunks[i]), d, chunks, i + 1)

\* IsEmptyText that never finds the text empty
IsEmptyText_Never(total_chars) == FALSE

\* if total_chars == 0
IsEmptyText(total_chars) == total_chars = 0

\* if total_chars > 300000
TooLarge(total_chars) == total_chars > MaxFileChars

\* the try block of split_file
split_file_try(f, input_file_path, output_folder, max_chars_per_file, io) ==
    IF ~Exists(f, input_file_path)
    THEN [fs |-> f, res |-> Failure("Input file not found: ", input_file_path)]
    ELSE IF ~IsFile(f, input_file_path)
    THEN [fs |-> f, res |-> Failure("Path is not a file: ", input_file_path)]
    ELSE IF input_file_path \in io.unreadable
    THEN Raised(f, "OSError")
    ELSE LET text_content == ReadText(f, input_file_path)
             total_chars  == Len(text_content)
         IN  IF TooLarge(total_chars)
             THEN [fs |-> f, res |-> Failure("File too large: ", total_chars)]
             ELSE IF IsEmptyText(total_chars)
             THEN [fs |-> f, res |-> Failure("Input file is empty", <<>>)]
             ELSE IF MkDirRaises(f, output_folder)
             THEN Raised(f, "FileExistsError")
             ELSE IF io.mkdir_fails
             THEN Raised(f, "OSError")
             ELSE LET chunks == split_text_into_chunks(text_content, max_chars_per_file)
                      k      == io.write_fails_at
                  IN  IF k \in 1..Len(chunks)
                      \* open of {k}.txt raises after k - 1 files were written
                      THEN Raised(WriteChunks(MkDir(f, output_folder), output_folder,
                                              SubSeq(chunks, 1, k - 1), 1), "OSError")
                      ELSE [fs  |-> WriteChunks(MkDir(f, output_folder), output_folder,
                                                chunks, 1),
                            res |-> [success       |-> TRUE,
                                     output_folder |-> <<output_folder>>,
                                     files_created |-> Len(chunks),
                                     total_chars   |-> total_chars,
                                     chunks        |-> chunks]]

split_file(f, input_file_path, output_folder, max_chars_per_file, io) ==
    Except(split_file_try(f, input_file_path, output_folder, max_chars_per_file, io),
           "Error splitting file: ")

(***************************************************************************)
(* get_numbered_files and merge_files (file_merger.py).  listing is the    *)
(* order in which the file system enumerates the folder's entries.         *)
(***************************************************************************)
RECURSIVE Perms(_)
Perms(S) ==
    IF S = {} THEN {<<>>}
    ELSE UNION {{<<x>> \o q : q \in Perms(S \ {x})} : x \in S}

\* the orders in which folder.glob("*.txt") can yield the entries
Listings(f, d) == Perms({n \in DOMAIN f[d].entries : GlobTxt(n)})

RECURSIVE SelectNumbered(_, _)
\* the loop over glob: keep the names the regular expression matches
SelectNumbered(d, listing) ==
    IF listing = <<>> THEN <<>>
    ELSE LET rest == SelectNumbered(d, Tail(listing))
         IN  IF MatchNumbered(BaseName(Head(listing)))
             THEN <<<<FileNumber(BaseName(Head(listing))), <<d, Head(listing)>>>>>> \o rest
             ELSE rest

\* the rank of a character in the order of the character codes, for the
\* characters of a numbered file name
CharRank(c) == IF c \in DigitSet THEN DigitVal(c) + 2 ELSE IF c = "." THEN 1 ELSE 12

RECURSIVE LexLess(_, _)
\* a < b as Python compares strings
LexLess(a, b) ==
    IF b = <<>> THEN FALSE
    ELSE IF a = <<>> THEN TRUE
    ELSE IF CharRank(Head(a)) # CharRank(Head(b)) THEN CharRank(Head(a)) < CharRank(Head(b))
    ELSE LexLess(Tail(a), Tail(b))

\* InsertByNumber comparing the file names instead of the numbers
InsertByNumber_ByName(x, s) ==
    LET before == {k \in 1..Len(s) : \A j \in 1..k : LexLess(s[j][2][2], x[2][2])}
        n      == Cardinality(before)
    IN  SubSeq(s, 1, n) \o <<x>> \o SubSeq(s, n + 1, Len(s))

\* place x before the first element whose key is not smaller
InsertByNumber(x, s) ==
    LET before == {k \in 1..Len(s) : \A j \in 1..k : s[j][1] < x[1]}
        n      == Cardinality(before)
    IN  SubSeq(s, 1, n) \o <<x>> \o SubSeq(s, n + 1, Len(s))

RECURSIVE SortByNumber(_)
\* list.sort(key=lambda x: x[0]): stable, ascending by file number
SortByNumber(l) ==
    IF l = <<>> THEN <<>>
    ELSE InsertByNumber(Head(l), SortByNumber(Tail(l)))

get_numbered_files(f, folder_path, listing) ==
    IF ~Exists(f, folder_path) \/ ~IsDir(f, folder_path) THEN <<>>
    ELSE SortByNumber(SelectNumbered(folder_path[1], listing))

RECURSIVE ReadPieces_NoStrip(_, _)
\* ReadPieces without the strip() of the content
ReadPieces_NoStrip(f, numbered_files) ==
    IF numbered_files = <<>> THEN <<>>
    ELSE LET content == ReadText(f, Head(numbered_files)[2])
             rest    == ReadPieces_NoStrip(f, Tail(numbered_files))
         IN  IF content # <<>> THEN <<content>> \o rest ELSE rest

RECURSIVE ReadPieces_KeepEmpty(_, _)
\* ReadPieces without the test that skips empty content
ReadPieces_KeepEmpty(f, numbered_files) ==
    IF numbered_files = <<>> THEN <<>>
    ELSE <<Strip(ReadText(f, Head(numbered_files)[2]))>>
             \o ReadPieces_KeepEmpty(f, Tail(numbered_files))

RECURSIVE ReadPieces_StopAtEmpty(_, _)
\* ReadPieces leaving the loop at the first empty content
ReadPieces_StopAtEmpty(f, numbered_files) ==
    IF numbered_files = <<>> THEN <<>>
    ELSE LET content == Strip(ReadText(f, Head(numbered_files)[2]))
             rest    == ReadPieces_StopAtEmpty(f, Tail(numbered_files))
         IN  IF content # <<>> THEN <<content>> \o rest ELSE <<>>

RECURSIVE ReadPieces(_, _)
\* the read loop: stripped contents, the empty ones skipped
ReadPieces(f, numbered_files) ==
    IF numbered_files = <<>> THEN <<>>
    ELSE LET content == Strip(ReadText(f, Head(numbered_files)[2]))
             rest    == ReadPieces(f, Tail(numbered_files))
         IN  IF content # <<>> THEN <<content>> \o rest ELSE rest


\* the inner try of the read loop: a file whose open or read raises is
\* left out with a warning
SkipUnreadable(numbered_files, io) ==
    SelectSeq(numbered_files, LAMBDA nf : nf[2] \notin io.unreadable)

\* output_file=None
None == <<>>

\* NoSegments that never reports an empty discovery
NoSegments_Never(numbered_files) == FALSE

\* if not numbered_files
NoSegments(numbered_files) == numbered_files = <<>>

\* the try block of merge_files
\* a default output named like a segment
DefaultOutput_Numbered(input_folder) == <<input_folder[1], SegmentName(0)>>

\* input_path / "merged.txt"
DefaultOutput(input_folder) == <<input_folder[1], MergedName>>

merge_files_try(f, input_folder, output_file, separator, listing, io) ==
    IF ~Exists(f, input_folder)
    THEN [fs |-> f, res |-> Failure("Input folder not found: ", input_folder)]
    ELSE IF ~IsDir(f, input_folder)
    THEN [fs |-> f, res |-> Failure("Path is not a directory: ", input_folder)]
    ELSE LET numbered_files == get_numbered_files(f, input_folder, listing)
             output_path    == IF output_file = None
                               THEN DefaultOutput(input_folder)
                               ELSE output_file
             merged_content == ReadPieces(f, SkipUnreadable(numbered_files, io))
             final_content  == Join(separator, merged_content)
         IN  IF NoSegments(numbered_files)
             THEN [fs |-> f, res |-> Failure("No numbered text files found in: ", input_folder)]
             ELSE IF merged_content = <<>>
             THEN [fs |-> f, res |-> Failure("No content found in any of the numbered files", <<>>)]
             ELSE IF MkDirRaises(f, output_path[1])
             THEN Raised(f, "FileExistsError")
             ELSE IF io.mkdir_fails
             THEN Raised(f, "OSError")
             ELSE IF io.write_fails_at = 1
             THEN Raised(MkDir(f, output_path[1]), "OSError")
             ELSE [fs  |-> WriteText(MkDir(f, output_path[1]), output_path[1],
                                      output_path[2], final_content),
                   res |-> [success      |-> TRUE,
                            output_file  |-> output_path,
                            files_merged |-> Len(merged_content),
                            total_chars  |-> Len(final_content),
                            files_found  |-> Len(numbered_files)]]

merge_files(f, input_folder, output_file, separator, listing, io) ==
    Except(merge_files_try(f, input_folder, output_file, separator, listing, io),
           "Merge failed: ")

(***************************************************************************)
(* split_file_generic (generic_file_splitter.py) and merge_any_folder      *)
(* (generic_file_merger.py).  The paths of the model are relative, so      *)
(* get_absolute_path asks for the working directory; the output folder     *)
(* that split_file_generic derives from the input file is the directory    *)
(* "out", and the parent of the folders is the directory "top".            *)
(***************************************************************************)
\* get_absolute_path raises when Path.cwd() does
CwdRaises(io) == io.cwd_fails

\* auto_determine_output_dir / auto_generate_folder_name
auto_output_folder(file_path) == "out"

\* the try block of split_file_generic
split_file_generic_try(f, file_path, max_chars_per_file, io) ==
    IF CwdRaises(io) THEN Raised(f, "FileNotFoundError")
    ELSE IF ~Exists(f, file_path)
    THEN [fs |-> f, res |-> Failure("File not found: ", file_path)]
    ELSE split_file(f, file_path, auto_output_folder(file_path), max_chars_per_file, io)

split_file_generic(f, file_path, max_chars_per_file, io) ==
    Except(split_file_generic_try(f, file_path, max_chars_per_file, io),
           "Unexpected error: ")

\* Path(folder_path).name
FolderName(d) ==
    CASE d = "in" -> <<"i", "n">>
      [] d = "story" -> <<"s", "t", "o", "r", "y">>
      [] d = "out" -> <<"o", "u", "t">>
      [] d = "top" -> <<"t", "o", "p">>

\* parent_dir / f"{folder_name}{suffix}.txt"
auto_generate_output_file(folder_path) ==
    <<"top", FolderName(folder_path[1]) \o <<"_", "m", "e", "r", "g", "e", "d">> \o DotTxt>>

\* the try block of merge_any_folder
merge_any_folder_try(f, folder_path, output_file, separator, listing, io) ==
    IF CwdRaises(io) THEN Raised(f, "FileNotFoundError")
    ELSE LET out == IF output_file = None
                    THEN auto_generate_output_file(folder_path)
                    ELSE output_file
             r   == merge_files(f, folder_path, out, separator, listing, io)
         IN  [fs  |-> r.fs,
              res |-> [k \in DOMAIN r.res \cup {"input_folder_original",
                                                "input_folder_absolute"} |->
                          IF k \in {"input_folder_original", "input_folder_absolute"}
                          THEN folder_path
                          ELSE r.res[k]]]

merge_any_folder(f, folder_path, output_file, separator, listing, io) ==
    Except(merge_any_folder_try(f, folder_path, output_file, separator, listing, io),
           "Failed to merge folder ")

(***************************************************************************)
(* Inputs.                                                                 *)
(***************************************************************************)
RECURSIVE TextsUpTo(_)
\* every text over Alphabet of at most n characters
TextsUpTo(n) ==
    IF n = 0 THEN {<<>>}
    ELSE LET shorter == TextsUpTo(n - 1)
         IN  shorter \cup {Append(t, c) : t \in {u \in shorter : Len(u) = n - 1}, c \in Alphabet}

\* "Hello world. This is a test."
HelloText ==
    <<"H", "e", "l", "l", "o", " ", "w", "o", "r", "l", "d", ".", " ",
      "T", "h", "i", "s", " ", "i", "s", " ", "a", " ", "t", "e", "s", "t", ".">>

\* texts with all the sentence terminators and with other whitespace
SampleTexts ==
    { <<"a", ".", " ", "a", "!", " ", "a", "?", " ", "a", "a">>,
      <<"a", "?", " ", "a", ".", " ", "a", "\n", "a", "a">>,
      <<"a", "\n", "a", "a", "\t", "a">>,
      <<"\n", "a", " ", "a", "\n">>,
      <<".", " ", "a", " ", "a", "a">> }

\* a text of n characters
Filled(n) == SubSeq([i \in 1..n |-> "a"], 1, n)

\* texts longer than the search window, split with max_chars = length - 5:
\* the window of the first slice is [5, 205) in a text of 210 characters
LongTexts ==
    { <<"a", " ", "a">> \o Filled(207),
      Filled(4) \o <<" ">> \o Filled(205),
      Filled(5) \o <<".", " ", "a", " ">> \o Filled(201),
      Filled(4) \o <<".", " ">> \o Filled(204),
      Filled(5) \o <<" ", "a", "!", " ", "a", "?", " ", "a", " ">> \o Filled(196),
      <<"a", ".", " ", "a", " ">> \o Filled(205),
      Filled(202) \o <<" ">> \o Filled(7) }

Texts ==
    TextsUpTo(MaxLen) \cup SampleTexts \cup LongTexts
        \cup {HelloText, Filled(MaxFileChars), Filled(MaxFileChars + 1)}

\* the max_chars values tried on a text
MaxCharsFor(text) ==
    IF Len(text) <= MaxLen THEN 1..MaxChars
    ELSE IF text \in SampleTexts THEN {Len(text) - 1}
    ELSE IF text = HelloText THEN {15}
    ELSE IF text \in LongTexts THEN {Len(text) - 5}
    ELSE {MaxFileChars}

InputName == <<"s">> \o DotTxt

AbsentName == <<"x">> \o DotTxt

FolderNames == {SegmentName(1), SegmentName(2), SegmentName(10), MergedName}

FolderContents == {<<"A">>, <<" ", "B", "\n">>, <<" ">>}

\* 2.txt, 10.txt and 1.txt
OrderFolder ==
    Dir((SegmentName(2) :> <<"A">>) @@ (SegmentName(10) :> <<" ", "B", "\n">>)
            @@ (SegmentName(1) :> <<"A">>))

\* 1.txt = 'A' and 2.txt = 'B'
PairFolder == Dir((SegmentName(1) :> <<"A">>) @@ (SegmentName(2) :> <<"B">>))

\* sub/2.txt: a numbered file inside a subfolder
NestedName == <<"s", "u", "b", "/">> \o SegmentName(2)

\* folders of several segments: gaps, blank segments, two names of one
\* index, names that are not numbered files
SampleFolders ==
    { OrderFolder, PairFolder,
      Dir((SegmentName(1) :> <<"A">>) @@ (SegmentName(2) :> <<" ", "B", "\n">>)),
      Dir((SegmentName(2) :> <<" ">>) @@ (SegmentName(10) :> <<" ">>)),
      Dir((SegmentName(1) :> <<"A">>) @@ (SegmentName(2) :> <<" ">>)
              @@ (SegmentName(10) :> <<" ", "B", "\n">>) @@ (MergedName :> <<"A">>)),
      Dir((SegmentName(1) :> <<"A">>) @@ ((<<"0">> \o SegmentName(1)) :> <<" ", "B", "\n">>)),
      Dir((<<"0">> \o SegmentName(1)) :> <<"A">>),
      Dir((<<"a">> \o SegmentName(1)) :> <<"A">>),
      Dir(((<<"a">> \o SegmentName(1)) :> <<"A">>) @@ (SegmentName(2) :> <<" ", "B", "\n">>)),
      Dir((SegmentName(1) :> <<"A">>) @@ (NestedName :> <<" ", "B", "\n">>)
              @@ (<<"1", ".", "t", "e", "x", "t">> :> <<"A">>)
              @@ ((SegmentName(1) \o <<".", "b", "a", "k">>) :> <<"A">>)) }

Folders ==
    {Missing, PlainFile} \cup SampleFolders \cup
    {Dir(e) : e \in UNION {[S -> FolderContents] :
                              S \in {T \in SUBSET FolderNames : Cardinality(T) <= MaxFiles}}}

FolderText == <<"a", " ", "a">>

DefaultSeparator == <<"\n", "\n">>

BarSeparator == <<" ", "|", " ">>

\* the (input_folder, output_file, separator) arguments tried
MergeCalls ==
    { <<<<"story">>, None, DefaultSeparator>>,
      <<<<"story">>, None, BarSeparator>>,
      <<<<"story">>, <<"out", MergedName>>, BarSeparator>>,
      <<<<"story">>, <<"story", SegmentName(2)>>, DefaultSeparator>>,
      <<<<"in">>, None, DefaultSeparator>> }

(***************************************************************************)
(* The state machine: the file system, the last call and its result, the   *)
(* number of calls made so far, and whether the last call repeated the     *)
(* call before it.                                                         *)
(***************************************************************************)
NoCall == [op |-> "none"]

\* the two concurrent callers of split_file
Procs == {"p", "q"}

\* a caller that has not started: its position in split_file and its locals
Idle == [pc |-> "start", max_chars |-> 0, text_content |-> <<>>, chunks |-> <<>>,
         i |-> 0, res |-> [pending |-> TRUE]]

\* no file written yet
NoWriter == [i \in {} |-> "p"]

NoResult == [pending |-> TRUE]

\* no call of split_text_into_chunks under way: its position and its locals
NoLoop == [pc |-> "idle", max_chars |-> 0, current_pos |-> 0, chunks |-> <<>>,
           iterations |-> 0]

\* an input file with any text, nothing split yet
InitText ==
    \E t \in Texts :
       fs = [d \in Dirs |-> IF d = "in" THEN Dir(InputName :> t)
                            ELSE IF d = "top" THEN Dir(NoEntries) ELSE Missing]

\* a segment folder left by earlier work
InitFolder ==
    \E folder \in Folders :
       fs = [d \in Dirs |-> IF d = "in" THEN Dir(InputName :> FolderText)
                            ELSE IF d = "story" THEN folder
                            ELSE IF d = "top" THEN Dir(NoEntries) ELSE Missing]

\* an output location that exists already, as a file or as a directory
InitOut ==
    \E out \in {PlainFile, Dir(NoEntries)} :
       fs = [d \in Dirs |-> IF d = "in" THEN Dir(InputName :> FolderText)
                            ELSE IF d = "story"
                                 THEN PairFolder
                                 ELSE IF d = "top" THEN Dir(NoEntries) ELSE out]

Init ==
    /\ InitText \/ InitFolder \/ InitOut
    /\ call = NoCall
    /\ res = NoResult
    /\ ncalls = 0
    /\ repeated = FALSE
    /\ procs = [p \in Procs |-> Idle]
    /\ lastWriter = NoWriter
    /\ loop = NoLoop

InputText == ReadText(fs, <<"in", InputName>>)

\* the (input_file_path, max_chars_per_file) arguments tried
SplitCalls ==
    ({<<"in", InputName>>} \X MaxCharsFor(InputText))
        \cup ({<<"in", AbsentName>>, <<"in">>} \X {MaxChars})

SplitText ==
    /\ ncalls < MaxCalls
    /\ \E max_chars \in MaxCharsFor(InputText) :
          /\ call' = [op |-> "split_text_into_chunks", max_chars |-> max_chars]
          /\ res' = [chunks |-> split_text_into_chunks(InputText, max_chars)]
    /\ ncalls' = ncalls + 1
    /\ repeated' = (call' = call)
    /\ UNCHANGED <<procs, lastWriter, loop>>
    /\ UNCHANGED fs

SplitFile ==
    /\ ncalls < MaxCalls
    /\ \E c \in SplitCalls :
          LET r == split_file(fs, c[1], "story", c[2], NoFault)
          IN  /\ call' = [op |-> "split_file", input_file_path |-> c[1],
                          max_chars |-> c[2]]
              /\ fs' = r.fs
              /\ res' = r.res
    /\ ncalls' = ncalls + 1
    /\ repeated' = (call' = call)
    /\ UNCHANGED <<procs, lastWriter, loop>>

GetNumberedFiles ==
    /\ ncalls < MaxCalls
    /\ \E folder_path \in {<<"story">>, <<"in">>} :
          \E r \in {get_numbered_files(fs, folder_path, listing) :
                       listing \in Listings(fs, folder_path[1])} :
             /\ call' = [op |-> "get_numbered_files", folder_path |-> folder_path]
             /\ res' = [numbered_files |-> r]
    /\ ncalls' = ncalls + 1
    /\ repeated' = (call' = call)
    /\ UNCHANGED <<procs, lastWriter, loop>>
    /\ UNCHANGED fs

MergeFiles ==
    /\ ncalls < MaxCalls
    /\ \E c \in MergeCalls :
          \E r \in {merge_files(fs, c[1], c[2], c[3], listing, NoFault) :
                       listing \in Listings(fs, c[1][1])} :
             /\ call' = [op |-> "merge_files", input_folder |-> c[1],
                         output_file |-> c[2], separator |-> c[3]]
             /\ fs' = r.fs
             /\ res' = r.res
    /\ ncalls' = ncalls + 1
    /\ repeated' = (call' = call)
    /\ UNCHANGED <<procs, lastWriter, loop>>

Next == SplitText \/ SplitFile \/ GetNumberedFiles \/ MergeFiles

Spec == Init /\ [][Next]_vars

(***************************************************************************)
(* Two callers run split_file at the same time on the same input file and  *)
(* the same output folder, each with its own max_chars_per_file.  A step   *)
(* is one access to the file system: the checks and the read of the input, *)
(* the mkdir, the open of {i}.txt for writing, which creates or truncates  *)
(* it, and the write of the chunk at the start of the file on close.       *)
(* lastWriter records which caller wrote each file last.                   *)
(***************************************************************************)
InitConcurrent ==
    /\ \E folder \in {Missing, PlainFile, Dir(NoEntries), PairFolder} :
          fs = [d \in Dirs |-> IF d = "in" THEN Dir(InputName :> FolderText)
                               ELSE IF d = "story" THEN folder
                               ELSE IF d = "top" THEN Dir(NoEntries) ELSE Missing]
    /\ call = NoCall
    /\ res = NoResult
    /\ ncalls = 0
    /\ repeated = FALSE
    /\ procs = [p \in Procs |-> Idle]
    /\ lastWriter = NoWriter
    /\ loop = NoLoop

\* lines 80-110: the checks of the input file and its read
Start(p) ==
    /\ procs[p].pc = "start"
    /\ \E max_chars \in MaxCharsFor(InputText) :
          LET input_file_path == <<"in", InputName>>
              done(r) == [procs EXCEPT ![p].pc = "done", ![p].max_chars = max_chars,
                                       ![p].res = r]
          IN  procs' =
                 IF ~Exists(fs, input_file_path)
                 THEN done(Failure("Input file not found: ", input_file_path))
                 ELSE IF ~IsFile(fs, input_file_path)
                 THEN done(Failure("Path is not a file: ", input_file_path))
                 ELSE IF TooLarge(Len(ReadText(fs, input_file_path)))
                 THEN done(Failure("File too large: ", Len(ReadText(fs, input_file_path))))
                 ELSE IF IsEmptyText(Len(ReadText(fs, input_file_path)))
                 THEN done(Failure("Input file is empty", <<>>))
                 ELSE [procs EXCEPT ![p].pc = "mkdir", ![p].max_chars = max_chars,
                                    ![p].text_content = ReadText(fs, input_file_path)]
    /\ UNCHANGED <<fs, call, res, ncalls, repeated, lastWriter, loop>>

\* lines 128-131: mkdir of the output folder, then the chunks
MakeFolder(p) ==
    /\ procs[p].pc = "mkdir"
    /\ IF MkDirRaises(fs, "story")
       THEN /\ procs' = [procs EXCEPT
                            ![p].pc = "done",
                            ![p].res = Failure("Error splitting file: ", "FileExistsError")]
            /\ fs' = fs
       ELSE /\ procs' = [procs EXCEPT
                            ![p].pc = "open",
                            ![p].i = 1,
                            ![p].chunks = split_text_into_chunks(procs[p].text_content,
                                                                 procs[p].max_chars)]
            /\ fs' = MkDir(fs, "story")
    /\ UNCHANGED <<call, res, ncalls, repeated, lastWriter, loop>>

\* line 137: open(output_file, 'w') creates the file or truncates it
OpenChunkFile(p) ==
    /\ procs[p].pc = "open"
    /\ procs[p].i <= Len(procs[p].chunks)
    /\ fs' = WriteText(fs, "story", SegmentName(procs[p].i), <<>>)
    /\ procs' = [procs EXCEPT ![p].pc = "write"]
    /\ UNCHANGED <<call, res, ncalls, repeated, lastWriter, loop>>

\* lines 138-139: the chunk goes to the start of the file when it is closed;
\* what the file holds beyond the length of the chunk stays
WriteChunkFile(p) ==
    /\ procs[p].pc = "write"
    /\ LET name  == SegmentName(procs[p].i)
           chunk == procs[p].chunks[procs[p].i]
           old   == ReadText(fs, <<"story", name>>)
       IN  fs' = WriteText(fs, "story", name,
                           chunk \o SubSeq(old, Len(chunk) + 1, Len(old)))
    /\ lastWriter' = (procs[p].i :> p) @@ lastWriter
    /\ procs' = [procs EXCEPT ![p].pc = "open", ![p].i = procs[p].i + 1]
    /\ UNCHANGED <<call, res, ncalls, repeated, loop>>

\* lines 141-147: the loop is over, the success dictionary is returned
Return(p) ==
    /\ procs[p].pc = "open"
    /\ procs[p].i > Len(procs[p].chunks)
    /\ procs' = [procs EXCEPT
                    ![p].pc = "done",
                    ![p].res = [success       |-> TRUE,
                                output_folder |-> <<"story">>,
                                files_created |-> procs[p].i - 1,
                                total_chars   |-> Len(procs[p].text_content),
                                chunks        |-> procs[p].chunks]]
    /\ UNCHANGED <<fs, call, res, ncalls, repeated, lastWriter, loop>>

NextConcurrent ==
    \E p \in Procs :
       Start(p) \/ MakeFolder(p) \/ OpenChunkFile(p) \/ WriteChunkFile(p) \/ Return(p)

SpecConcurrent == InitConcurrent /\ [][NextConcurrent]_vars

(***************************************************************************)
(* The same operations and the two generic ones on a file system whose     *)
(* calls can fail: during a call one file cannot be read, or a directory   *)
(* cannot be made, or the open of the k-th output file fails, or the       *)
(* working directory is gone.  A behaviour is one call on any of the       *)
(* initial file systems.                                                   *)
(***************************************************************************)
Faults ==
    {NoFault, [NoFault EXCEPT !.mkdir_fails = TRUE], [NoFault EXCEPT !.cwd_fails = TRUE]}
        \cup {[NoFault EXCEPT !.unreadable = {p}] :
                 p \in {<<"in", InputName>>, <<"story", SegmentName(1)>>,
                        <<"story", SegmentName(2)>>}}
        \cup {[NoFault EXCEPT !.write_fails_at = k] : k \in {1, 2}}

SplitFileIO ==
    /\ ncalls = 0
    /\ \E c \in SplitCalls, io \in Faults :
          LET r == split_file(fs, c[1], "story", c[2], io)
          IN  /\ call' = [op |-> "split_file", input_file_path |-> c[1],
                          max_chars |-> c[2], io |-> io]
              /\ fs' = r.fs
              /\ res' = r.res
    /\ ncalls' = ncalls + 1
    /\ repeated' = (call' = call)
    /\ UNCHANGED <<procs, lastWriter, loop>>

SplitFileGeneric ==
    /\ ncalls = 0
    /\ \E c \in SplitCalls, io \in Faults :
          LET r == split_file_generic(fs, c[1], c[2], io)
          IN  /\ call' = [op |-> "split_file_generic", input_file_path |-> c[1],
                          max_chars |-> c[2], io |-> io]
              /\ fs' = r.fs
              /\ res' = r.res
    /\ ncalls' = ncalls + 1
    /\ repeated' = (call' = call)
    /\ UNCHANGED <<procs, lastWriter, loop>>

MergeFilesIO ==
    /\ ncalls = 0
    /\ \E c \in MergeCalls, io \in Faults :
          \E r \in {merge_files(fs, c[1], c[2], c[3], listing, io) :
                       listing \in Listings(fs, c[1][1])} :
             /\ call' = [op |-> "merge_files", input_folder |-> c[1],
                         output_file |-> c[2], separator |-> c[3], io |-> io]
             /\ fs' = r.fs
             /\ res' = r.res
    /\ ncalls' = ncalls + 1
    /\ repeated' = (call' = call)
    /\ UNCHANGED <<procs, lastWriter, loop>>

MergeAnyFolder ==
    /\ ncalls = 0
    /\ \E c \in MergeCalls, io \in Faults :
          \E r \in {merge_any_folder(fs, c[1], c[2], c[3], listing, io) :
                       listing \in Listings(fs, c[1][1])} :
             /\ call' = [op |-> "merge_any_folder", input_folder |-> c[1],
                         output_file |-> c[2], separator |-> c[3], io |-> io]
             /\ fs' = r.fs
             /\ res' = r.res
    /\ ncalls' = ncalls + 1
    /\ repeated' = (call' = call)
    /\ UNCHANGED <<procs, lastWriter, loop>>

NextIO == SplitFileIO \/ SplitFileGeneric \/ MergeFilesIO \/ MergeAnyFolder

SpecIO == Init /\ [][NextIO]_vars

(***************************************************************************)
(* split_text_into_chunks statement by statement: one call on the input    *)
(* text, one step per iteration of its while loop.  loop.iterations counts *)
(* the iterations made; the source holds no such counter.                  *)
(***************************************************************************)
InitLoop ==
    /\ \E t \in {x \in Texts : Len(x) < MaxFileChars} :
          fs = [d \in Dirs |-> IF d = "in" THEN Dir(InputName :> t)
                               ELSE IF d = "top" THEN Dir(NoEntries) ELSE Missing]
    /\ call = NoCall
    /\ res = NoResult
    /\ ncalls = 0
    /\ repeated = FALSE
    /\ procs = [p \in Procs |-> Idle]
    /\ lastWriter = NoWriter
    /\ loop = NoLoop

\* lines 23-25: chunks = [], current_pos = 0
EnterLoop ==
    /\ loop.pc = "idle"
    /\ \E max_chars \in MaxCharsFor(InputText) :
          /\ call' = [op |-> "split_text_into_chunks", max_chars |-> max_chars]
          /\ loop' = [pc |-> "loop", max_chars |-> max_chars, current_pos |-> 0,
                      chunks |-> <<>>, iterations |-> 0]
    /\ ncalls' = ncalls + 1
    /\ UNCHANGED <<fs, res, repeated, procs, lastWriter>>

\* lines 27-54: one iteration of the while loop
LoopIteration ==
    /\ loop.pc = "loop"
    /\ loop.current_pos < Len(InputText)
    /\ LET end_pos == EndPos(InputText, loop.max_chars, loop.current_pos)
           chunk   == Strip(SubSeq(InputText, loop.current_pos + 1, end_pos))
       IN  loop' = [loop EXCEPT
                       !.chunks = IF chunk # <<>> THEN Append(@, chunk) ELSE @,
                       !.current_pos = end_pos,
                       !.iterations = @ + 1]
    /\ UNCHANGED <<fs, call, res, ncalls, repeated, procs, lastWriter>>

\* lines 27 and 56: the loop test fails and the chunks are returned
ReturnChunks ==
    /\ loop.pc = "loop"
    /\ ~(loop.current_pos < Len(InputText))
    /\ loop' = [loop EXCEPT !.pc = "done"]
    /\ res' = [chunks |-> loop.chunks]
    /\ UNCHANGED <<fs, call, ncalls, repeated, procs, lastWriter>>

NextLoop == EnterLoop \/ LoopIteration \/ ReturnChunks

\* the call runs alone and is never suspended for ever: each of its steps
\* is taken when it is enabled
SpecLoop ==
    /\ InitLoop /\ [][NextLoop]_vars
    /\ WF_vars(LoopIteration) /\ WF_vars(ReturnChunks)

(***************************************************************************)
(* Vocabulary of the properties.                                           *)
(***************************************************************************)
\* the k-th smallest element of a set of integers
Nth(S, k) == CHOOSE x \in S : Cardinality({y \in S : y < x}) = k - 1

\* str.split(): the maximal runs of non-whitespace characters, in order
Words(t) ==
    LET starts == {i \in 1..Len(t) : t[i] \notin Whitespace
                                      /\ (i = 1 \/ t[i - 1] \in Whitespace)}
        ends   == {i \in 1..Len(t) : t[i] \notin Whitespace
                                      /\ (i = Len(t) \/ t[i + 1] \in Whitespace)}
    IN  [k \in 1..Cardinality(starts) |-> SubSeq(t, Nth(starts, k), Nth(ends, k))]

IsBlank(t) == \A i \in 1..Len(t) : t[i] \in Whitespace

\* the last call returned a chunk list
HasChunks ==
    \/ call.op = "split_text_into_chunks"
    \/ call.op = "split_file" /\ res.success

\* a step that is a call of the named operation
IsCall(op) == call'.op = op /\ ncalls' = ncalls + 1

\* the folder holds exactly the segments 1.txt..N.txt that the split_file
\* call that just returned has written
FreshSplit ==
    /\ call.op = "split_file"
    /\ res.success
    /\ DOMAIN fs["story"].entries = {SegmentName(i) : i \in 1..res.files_created}

\* merge_files of the story folder, default output, whitespace separator
MergesStory ==
    /\ IsCall("merge_files")
    /\ call'.input_folder = <<"story">>
    /\ call'.output_file = None
    /\ IsBlank(call'.separator)

MergedText == fs'[res'.output_file[1]].entries[res'.output_file[2]]

\* some slice of split_text_into_chunks ends between two non-whitespace
\* characters
CutsInsideWord(text, max_chars) ==
    \E k \in 1..Len(SliceEnds(text, max_chars)) :
       LET e == SliceEnds(text, max_chars)[k]
       IN  /\ e < Len(text)
           /\ text[e] \notin Whitespace
           /\ text[e + 1] \notin Whitespace

(***************************************************************************)
(* C1.  Round trip: splitting a text, persisting the chunks as 1.txt..N.txt *)
(* and merging them with a whitespace separator gives a document with the  *)
(* word sequence of the text.                                              *)
(***************************************************************************)
\* C1 as stated, on the texts that have a word: for every such text and
\* every max_chars the merge yields a document whose words are the words
\* of the text.
C1_RoundTripAlways ==
    [][FreshSplit /\ MergesStory /\ Words(InputText) # <<>>
          => res'.success /\ Words(MergedText) = Words(InputText)]_vars

\* C1 amended: when no slice ends inside a word, a text that has a word is
\* merged into a document with the same word sequence; for a text without
\* any word no segment is written and the merge reports a failure.
C1_RoundTrip ==
    [][FreshSplit /\ MergesStory /\ ~CutsInsideWord(InputText, call.max_chars)
          => IF Words(InputText) # <<>>
             THEN res'.success /\ Words(MergedText) = Words(InputText)
             ELSE ~res'.success]_vars

\* a merged document made of several chunks of the input text
C1_Witness ==
    /\ call.op = "merge_files"
    /\ call.output_file = None
    /\ call.separator = DefaultSeparator
    /\ res.success
    /\ res.files_merged >= 2
    /\ \E mc \in 1..MaxChars :
          LET chunks == split_text_into_chunks(InputText, mc)
          IN  /\ ~CutsInsideWord(InputText, mc)
              /\ Len(chunks) = res.files_merged
              /\ fs["story"].entries[MergedName] = Join(DefaultSeparator, chunks)
    /\ Words(fs["story"].entries[MergedName]) = Words(InputText)

(***************************************************************************)
(* C2.  Size bound: every chunk returned has at most max_chars characters. *)
(***************************************************************************)
C2_SizeBound ==
    HasChunks => \A i \in 1..Len(res.chunks) : Len(res.chunks[i]) <= call.max_chars

\* several chunks, one of them of exactly max_chars characters
C2_Witness ==
    /\ HasChunks
    /\ Len(res.chunks) >= 2
    /\ \E i \in 1..Len(res.chunks) : Len(res.chunks[i]) = call.max_chars

(***************************************************************************)
(* C3.  No chunk is the empty string and no chunk begins or ends with a    *)
(* whitespace character.                                                   *)
(***************************************************************************)
C3_NoEmptyChunk ==
    HasChunks =>
       \A i \in 1..Len(res.chunks) :
          LET c == res.chunks[i]
          IN  /\ c # <<>>
              /\ c[1] \notin Whitespace
              /\ c[Len(c)] \notin Whitespace

\* chunks were returned and whitespace of the text was left out of them
C3_Witness ==
    /\ HasChunks
    /\ Len(res.chunks) >= 2
    /\ InputText[1] \in Whitespace
    /\ InputText[Len(InputText)] \in Whitespace

(***************************************************************************)
(* C4.  split_text_into_chunks("Hello world. This is a test.", 15).        *)
(***************************************************************************)
HelloCall ==
    /\ call.op = "split_text_into_chunks"
    /\ InputText = HelloText
    /\ call.max_chars = 15

\* C4 as stated: the call returns the two chunks "Hello world." and
\* "This is a test."
C4_TwoChunks ==
    HelloCall => res.chunks = <<SubSeq(HelloText, 1, 12), SubSeq(HelloText, 14, 28)>>

\* C4 amended: the call returns the three chunks "Hello world.",
\* "This is a" and "test."
C4_ThreeChunks ==
    HelloCall => res.chunks = << <<"H", "e", "l", "l", "o", " ", "w", "o", "r", "l", "d", ".">>,
                                 <<"T", "h", "i", "s", " ", "i", "s", " ", "a">>,
                                 <<"t", "e", "s", "t", ".">> >>

C4_Witness == HelloCall /\ Len(res.chunks) = 3

(***************************************************************************)
(* C5.  When merge_files succeeds, the output file holds the contents of   *)
(* the discovered files, each stripped, the empty ones removed, in         *)
(* ascending index order, joined by the separator; files_merged is the     *)
(* number of joined pieces and total_chars the length of the written text. *)
(***************************************************************************)
\* the names of the folder's entries that are digits followed by ".txt"
NumberedNames(f, d) == {n \in DOMAIN f[d].entries : MatchNumbered(n)}

\* the non-empty stripped contents of the named files, in the given order
Pieces(f, d, order) ==
    SelectSeq([k \in 1..Len(order) |-> Strip(f[d].entries[order[k]])],
              LAMBDA c : c # <<>>)

RECURSIVE Joined(_, _)
\* the pieces with the separator between each two neighbours
Joined(sep, pieces) ==
    IF Len(pieces) = 0 THEN <<>>
    ELSE IF Len(pieces) = 1 THEN pieces[1]
    ELSE Joined(sep, SubSeq(pieces, 1, Len(pieces) - 1)) \o sep \o pieces[Len(pieces)]

Ascending(order) ==
    \A k \in 1..Len(order), l \in 1..Len(order) :
       k < l => FileNumber(order[k]) <= FileNumber(order[l])

C5_MergeResult ==
    [][IsCall("merge_files") /\ res'.success
          => \E order \in Perms(NumberedNames(fs, call'.input_folder[1])) :
                /\ Ascending(order)
                /\ MergedText =
                      Joined(call'.separator, Pieces(fs, call'.input_folder[1], order))
                /\ res'.files_merged = Len(Pieces(fs, call'.input_folder[1], order))
                /\ res'.total_chars = Len(MergedText)]_vars

\* 1.txt = 'A' and 2.txt = ' B\n' merged with ' | ' into 'A | B'
C5_Witness ==
    /\ call.op = "merge_files"
    /\ call.separator = BarSeparator
    /\ res.success
    /\ res.files_merged = 2
    /\ fs[res.output_file[1]].entries[res.output_file[2]] = <<"A", " ", "|", " ", "B">>

(***************************************************************************)
(* C6.  get_numbered_files returns the (index, path) pairs of the folder's *)
(* numbered files in ascending order of the integer value of the index,    *)
(* whatever the enumeration order and the lexicographic order of names.    *)
(***************************************************************************)
RECURSIVE DecimalValue(_, _)
\* the integer a digit sequence denotes, read from the left
DecimalValue(ds, acc) ==
    IF ds = <<>> THEN acc ELSE DecimalValue(Tail(ds), 10 * acc + DigitVal(Head(ds)))

IndexOfName(name) == DecimalValue(SubSeq(name, 1, Len(name) - Len(DotTxt)), 0)

C6_NumericOrder ==
    call.op = "get_numbered_files" =>
       LET nf == res.numbered_files
           d  == call.folder_path[1]
       IN  /\ \A k \in 1..Len(nf) :
                 /\ nf[k][2][1] = d
                 /\ nf[k][1] = IndexOfName(nf[k][2][2])
           /\ \A k \in 1..Len(nf), l \in 1..Len(nf) : k < l => nf[k][1] <= nf[l][1]
           /\ {nf[k][2][2] : k \in 1..Len(nf)} = NumberedNames(fs, d)
           /\ Len(nf) = Cardinality(NumberedNames(fs, d))

\* 2.txt, 10.txt and 1.txt are returned in the order 1, 2, 10
C6_Witness ==
    /\ call.op = "get_numbered_files"
    /\ Len(res.numbered_files) = 3
    /\ [k \in 1..3 |-> res.numbered_files[k][1]] = <<1, 2, 10>>

(***************************************************************************)
(* C7.  When split_file succeeds with chunks c_1..c_N, each file i.txt of  *)
(* the output folder holds c_i, files_created = N = the length of the      *)
(* returned chunk list, and total_chars is the length of the input text.   *)
(***************************************************************************)
C7_WritePath ==
    call.op = "split_file" /\ res.success =>
       /\ res.chunks = split_text_into_chunks(ReadText(fs, call.input_file_path),
                                              call.max_chars)
       /\ res.files_created = Len(res.chunks)
       /\ res.total_chars = Len(ReadText(fs, call.input_file_path))
       /\ IsDir(fs, res.output_folder)
       /\ \A i \in 1..Len(res.chunks) :
             /\ IsFile(fs, <<res.output_folder[1], FormatInt(i) \o DotTxt>>)
             /\ ReadText(fs, <<res.output_folder[1], FormatInt(i) \o DotTxt>>) = res.chunks[i]

\* two chunks written into a folder that held segments already
C7_Witness ==
    /\ call.op = "split_file"
    /\ res.success
    /\ res.files_created = 2
    /\ SegmentName(10) \in DOMAIN fs["story"].entries
    /\ fs["story"].entries[SegmentName(1)] = <<"a">>

(***************************************************************************)
(* C8.  split_file fails with a reason when the input path does not exist, *)
(* is not a regular file, is empty or has more than 300,000 characters     *)
(* (exactly 300,000 is accepted); then nothing is created or written.      *)
(***************************************************************************)
SplitFails(msg) == ~res'.success /\ res'.error[1] = msg /\ fs' = fs

C8_Validation ==
    [][IsCall("split_file") =>
          LET p == call'.input_file_path
          IN  /\ ~Exists(fs, p) => SplitFails("Input file not found: ")
              /\ Exists(fs, p) /\ ~IsFile(fs, p) => SplitFails("Path is not a file: ")
              /\ IsFile(fs, p) /\ Len(ReadText(fs, p)) = 0
                    => SplitFails("Input file is empty")
              /\ IsFile(fs, p) /\ Len(ReadText(fs, p)) > 300000
                    => SplitFails("File too large: ")
              /\ IsFile(fs, p) /\ Len(ReadText(fs, p)) = 300000
                    /\ fs["story"].kind # "file" => res'.success]_vars

\* an empty file was refused and the output folder was not created
C8_Witness ==
    /\ call.op = "split_file"
    /\ call.input_file_path = <<"in", InputName>>
    /\ InputText = <<>>
    /\ ~res.success
    /\ res.error[1] = "Input file is empty"
    /\ fs["story"].kind = "missing"

(***************************************************************************)
(* C9.  merge_files fails with "not found" when the input folder does not  *)
(* exist and with "No content found in any of the numbered files" when     *)
(* numbered files exist and all are empty after stripping; then no file is *)
(* written and no directory is created.                                    *)
(***************************************************************************)
MergeFails(msg) == ~res'.success /\ res'.error[1] = msg /\ fs' = fs

C9_MergeFailures ==
    [][IsCall("merge_files") =>
          LET p == call'.input_folder
          IN  /\ ~Exists(fs, p) => MergeFails("Input folder not found: ")
              /\ IsDir(fs, p) /\ NumberedNames(fs, p[1]) # {}
                    /\ (\A n \in NumberedNames(fs, p[1]) : IsBlank(fs[p[1]].entries[n]))
                    => MergeFails("No content found in any of the numbered files")]_vars

\* numbered files that are all blank: failure, and no output location made
C9_Witness ==
    /\ call.op = "merge_files"
    /\ call.output_file = <<"out", MergedName>>
    /\ NumberedNames(fs, call.input_folder[1]) # {}
    /\ ~res.success
    /\ res.error[1] = "No content found in any of the numbered files"
    /\ fs["out"].kind = "missing"

(***************************************************************************)
(* C10.  merge_files on an existing path for which discovery returns the   *)
(* empty sequence fails with "No numbered text files found".               *)
(***************************************************************************)
DiscoversNothing(f, p) ==
    \A listing \in Listings(f, p[1]) : get_numbered_files(f, p, listing) = <<>>

\* C10 as stated: for every path that exists
C10_ExistingPath ==
    [][IsCall("merge_files") /\ Exists(fs, call'.input_folder)
          /\ DiscoversNothing(fs, call'.input_folder)
          => ~res'.success /\ res'.error[1] = "No numbered text files found in: "]_vars

\* C10 amended: for every path that exists and is a directory
C10_ExistingDirectory ==
    [][IsCall("merge_files") /\ Exists(fs, call'.input_folder)
          /\ IsDir(fs, call'.input_folder)
          /\ DiscoversNothing(fs, call'.input_folder)
          => ~res'.success /\ res'.error[1] = "No numbered text files found in: "]_vars

\* a directory whose entries are not numbered files was refused
C10_Witness ==
    /\ call.op = "merge_files"
    /\ IsDir(fs, call.input_folder)
    /\ DOMAIN fs[call.input_folder[1]].entries # {}
    /\ DiscoversNothing(fs, call.input_folder)
    /\ ~res.success
    /\ res.error[1] = "No numbered text files found in: "

(***************************************************************************)
(* C11.  Every call of split_file, split_file_generic, merge_files and     *)
(* merge_any_folder returns a dictionary with a boolean success and lets   *)
(* no exception out; success is false exactly when the dictionary has an   *)
(* error, and the outcome fields are there exactly when success is true.   *)
(***************************************************************************)
OutcomeFields ==
    IF call.op \in {"split_file", "split_file_generic"}
    THEN {"output_folder", "files_created", "total_chars"}
    ELSE {"output_file", "files_merged", "total_chars", "files_found"}

C11_ResultShape ==
    call.op \in {"split_file", "split_file_generic", "merge_files", "merge_any_folder"} =>
       /\ "raised" \notin DOMAIN res
       /\ "success" \in DOMAIN res
       /\ res.success \in BOOLEAN
       /\ (res.success = FALSE) <=> ("error" \in DOMAIN res)
       /\ IF res.success THEN OutcomeFields \subseteq DOMAIN res
                         ELSE OutcomeFields \cap DOMAIN res = {}

\* a failure of the file system inside a generic operation, reported as a
\* failure dictionary
C11_Witness ==
    /\ call.op = "merge_any_folder"
    /\ call.io.write_fails_at = 1
    /\ "success" \in DOMAIN res
    /\ ~res.success
    /\ res.error = <<"Merge failed: ", "OSError">>
    /\ "input_folder_original" \in DOMAIN res

(***************************************************************************)
(* C12.  merge_files only reads the segments: the numbered files of the    *)
(* input folder and the content of each are the same after the call as     *)
(* before it, whatever output_file and separator the caller gives.         *)
(***************************************************************************)
\* C12 as stated
C12_SegmentsUntouched ==
    [][IsCall("merge_files") =>
          LET d == call'.input_folder[1]
          IN  /\ NumberedNames(fs', d) = NumberedNames(fs, d)
              /\ \A n \in NumberedNames(fs, d) : fs'[d].entries[n] = fs[d].entries[n]]_vars

(***************************************************************************)
(* C13.  When a split_file call that succeeded is repeated with the same   *)
(* arguments on the unchanged input file, the second call succeeds too,    *)
(* reports the same files_created and leaves the output folder as the      *)
(* first call left it: the existing folder is no cause of failure.         *)
(***************************************************************************)
C13_Idempotent ==
    [][call.op = "split_file" /\ res.success /\ IsCall("split_file") /\ call' = call
          => /\ res'.success
             /\ res'.files_created = res.files_created
             /\ fs' = fs]_vars

\* the same successful split_file call made twice, several files each time
C13_Witness ==
    /\ call.op = "split_file"
    /\ repeated
    /\ res.success
    /\ res.files_created >= 2

(***************************************************************************)
(* C14.  split_text_into_chunks of the empty text returns the empty        *)
(* sequence; of a text with max_chars >= its length, one chunk equal to    *)
(* the stripped text.                                                      *)
(***************************************************************************)
WholeTextCall ==
    /\ call.op = "split_text_into_chunks"
    /\ call.max_chars >= Len(InputText)

\* C14 as stated: every non-empty text that fits gives exactly one chunk
C14_OneChunkAlways ==
    WholeTextCall =>
       IF InputText = <<>> THEN res.chunks = <<>>
       ELSE res.chunks = <<Strip(InputText)>>

\* C14 amended: every text that fits and has a non-whitespace character
\* gives exactly one chunk, the stripped text; the empty text and a text of
\* whitespace only give the empty sequence
C14_OneChunk ==
    WholeTextCall =>
       IF IsBlank(InputText) THEN res.chunks = <<>>
       ELSE res.chunks = <<Strip(InputText)>>

\* a text that fits and begins or ends with whitespace, returned as one
\* shorter chunk
C14_Witness ==
    /\ WholeTextCall
    /\ Len(res.chunks) = 1
    /\ Len(res.chunks[1]) < Len(InputText)

(***************************************************************************)
(* C15.  When reading a discovered segment fails during merge_files, or    *)
(* writing a chunk fails during split_file, the result is a failure.       *)
(***************************************************************************)
\* a numbered file of the input folder cannot be read during the call
SegmentReadFails ==
    /\ IsCall("merge_files")
    /\ IsDir(fs, call'.input_folder)
    /\ \E n \in NumberedNames(fs, call'.input_folder[1]) :
          <<call'.input_folder[1], n>> \in call'.io.unreadable

\* the open of one of the chunk files fails during the call
ChunkWriteFails ==
    /\ IsCall("split_file")
    /\ LET r == split_file(fs, call'.input_file_path, "story", call'.max_chars, NoFault)
       IN  /\ r.res.success
           /\ call'.io.write_fails_at \in 1..r.res.files_created

\* C15 as stated
C15_IOFailureFails ==
    [][SegmentReadFails \/ ChunkWriteFails => ~res'.success]_vars

(***************************************************************************)
(* C16.  When two split_file calls run concurrently on the same output     *)
(* folder, both succeed whether or not the folder exists already, and when *)
(* both are over each file i.txt written holds exactly chunk i of the call *)
(* that wrote it last.                                                     *)
(***************************************************************************)
BothDone == \A p \in Procs : procs[p].pc = "done"

\* C16 as stated
C16_LastWriterWins ==
    BothDone /\ fs["story"].kind = "dir" =>
       /\ \A p \in Procs : procs[p].res.success
       /\ \A i \in DOMAIN lastWriter :
             ReadText(fs, <<"story", SegmentName(i)>>) = procs[lastWriter[i]].chunks[i]

(***************************************************************************)
(* C17.  After successful split_file calls into a folder, whatever the     *)
(* folder held before, discovery returns exactly the indices 1..N, N the   *)
(* files_created of the most recent call.                                  *)
(***************************************************************************)
\* C17 as stated
C17_OnlyLatestSegments ==
    [][call.op = "split_file" /\ res.success /\ IsCall("get_numbered_files")
          /\ call'.folder_path = res.output_folder
          => [k \in 1..Len(res'.numbered_files) |-> res'.numbered_files[k][1]]
                = [k \in 1..res.files_created |-> k]]_vars

(***************************************************************************)
(* The steps of the loop of split_text_into_chunks, for the properties of  *)
(* the boundaries: positions are 0-based, At(text, p) is the character at  *)
(* position p.                                                             *)
(***************************************************************************)
At(text, p) == text[p + 1]

\* the slices [cur, end) taken on the text, in order
Steps(text, max_chars) ==
    LET ends == SliceEnds(text, max_chars)
    IN  [k \in 1..Len(ends) |-> [cur |-> IF k = 1 THEN 0 ELSE ends[k - 1],
                                 end |-> ends[k]]]

\* min(cursor + maxChars, length(text))
CandidateEnd(text, max_chars, cur) ==
    IF cur + max_chars <= Len(text) THEN cur + max_chars ELSE Len(text)

\* the positions of the search window: the last 200 of the candidate slice
WindowOf(text, max_chars, cur) ==
    {p \in cur..(CandidateEnd(text, max_chars, cur) - 1) :
        p >= CandidateEnd(text, max_chars, cur) - 200}

\* the positions of the window where ". ", "! " or "? " lies within the window
SentenceMatches(text, max_chars, cur) ==
    {p \in WindowOf(text, max_chars, cur) :
        /\ p + 1 \in WindowOf(text, max_chars, cur)
        /\ At(text, p) \in {".", "!", "?"}
        /\ At(text, p + 1) = " "}

\* the positions of the window that hold a space
SpacesOf(text, max_chars, cur) ==
    {p \in WindowOf(text, max_chars, cur) : At(text, p) = " "}

\* the steps that choose a boundary: the candidate end is not the end of
\* the text
BoundarySteps(text, max_chars) ==
    {k \in 1..Len(Steps(text, max_chars)) :
        CandidateEnd(text, max_chars, Steps(text, max_chars)[k].cur) < Len(text)}

RECURSIVE Concat(_)
Concat(ss) == IF ss = <<>> THEN <<>> ELSE Head(ss) \o Concat(Tail(ss))

NonWhitespace(t) == SelectSeq(t, LAMBDA c : c \notin Whitespace)

\* the last call split a text that is not one of the two texts at the size
\* limit
SplitsText == HasChunks /\ Len(InputText) < MaxFileChars

(***************************************************************************)
(* C18.  The slices [cursor, end) are consecutive, none is empty, and they *)
(* concatenate to the text; the chunks are the stripped non-blank slices,  *)
(* so they hold every non-whitespace character once and in order.          *)
(***************************************************************************)
C18_Coverage ==
    SplitsText =>
       LET st     == Steps(InputText, call.max_chars)
           slices == [k \in 1..Len(st) |-> SubSeq(InputText, st[k].cur + 1, st[k].end)]
       IN  /\ \A k \in 1..Len(st) : st[k].cur < st[k].end
           /\ Concat(slices) = InputText
           /\ Len(res.chunks) <= Len(st)
           /\ NonWhitespace(Concat(res.chunks)) = NonWhitespace(InputText)

\* several slices, one of them blank, so fewer chunks than slices
C18_Witness ==
    /\ SplitsText
    /\ Len(res.chunks) >= 2
    /\ Len(res.chunks) < Len(Steps(InputText, call.max_chars))

(***************************************************************************)
(* C19.  In a step that chooses a boundary, the slice ends inside a word   *)
(* only when the search window holds no sentence match and no space after  *)
(* the cursor; in every other such step it ends right after a sentence     *)
(* terminator that a space follows, or right before a space.               *)
(***************************************************************************)
EndsInsideWord(text, e) ==
    /\ e >= 1
    /\ e < Len(text)
    /\ At(text, e - 1) \notin Whitespace
    /\ At(text, e) \notin Whitespace

NoBoundaryInWindow(text, max_chars, cur) ==
    /\ SentenceMatches(text, max_chars, cur) = {}
    /\ {p \in SpacesOf(text, max_chars, cur) : p > cur} = {}

C19_WordSplitOnlyByHardCut ==
    SplitsText =>
       LET st == Steps(InputText, call.max_chars)
       IN  \A k \in 1..Len(st) :
              CandidateEnd(InputText, call.max_chars, st[k].cur) < Len(InputText) =>
                 IF NoBoundaryInWindow(InputText, call.max_chars, st[k].cur)
                 THEN st[k].end = st[k].cur + call.max_chars
                 ELSE /\ ~EndsInsideWord(InputText, st[k].end)
                      /\ At(InputText, st[k].end) = " "

\* a word split by a hard cut although the slice holds a space, which lies
\* before the search window
C19_Witness ==
    /\ SplitsText
    /\ 1 \in BoundarySteps(InputText, call.max_chars)
    /\ EndsInsideWord(InputText, Steps(InputText, call.max_chars)[1].end)
    /\ \E p \in 1..(Steps(InputText, call.max_chars)[1].end - 1) : At(InputText, p) = " "
    /\ Len(res.chunks[1]) = call.max_chars

(***************************************************************************)
(* C20.  When the candidate end is not the end of the text and the search  *)
(* window holds a sentence match that starts after the cursor, the slice   *)
(* ends right after the terminator of the rightmost such match, also when  *)
(* a space occurs later in the window.                                     *)
(***************************************************************************)
MatchesAfter(text, max_chars, cur) ==
    {p \in SentenceMatches(text, max_chars, cur) : p > cur}

C20_SentenceFirst ==
    SplitsText =>
       LET st == Steps(InputText, call.max_chars)
       IN  \A k \in 1..Len(st) :
              LET e  == st[k].end
                  ms == MatchesAfter(InputText, call.max_chars, st[k].cur)
              IN  CandidateEnd(InputText, call.max_chars, st[k].cur) < Len(InputText)
                     /\ ms # {}
                  => /\ e = Max(ms) + 1
                     /\ At(InputText, e - 1) \in {".", "!", "?"}
                     /\ At(InputText, e) = " "

\* the first slice ends after a terminator and a space lies later in the
\* window
C20_Witness ==
    /\ SplitsText
    /\ 1 \in BoundarySteps(InputText, call.max_chars)
    /\ MatchesAfter(InputText, call.max_chars, 0) # {}
    /\ \E p \in SpacesOf(InputText, call.max_chars, 0) :
          p > Steps(InputText, call.max_chars)[1].end
    /\ Len(res.chunks) >= 2
    /\ res.chunks[1][Len(res.chunks[1])] \in {".", "!", "?"}

(***************************************************************************)
(* C21.  A sentence match that starts exactly at the cursor is not taken:  *)
(* when the rightmost match of the window starts at the cursor, the slice  *)
(* ends at the rightmost space of the window, which is cursor + 1 only     *)
(* when the window holds no later space.                                   *)
(***************************************************************************)
\* the steps that choose a boundary and whose rightmost sentence match
\* starts at the cursor
AtCursorSteps(text, max_chars) ==
    {k \in BoundarySteps(text, max_chars) :
        LET cur == Steps(text, max_chars)[k].cur
        IN  /\ SentenceMatches(text, max_chars, cur) # {}
            /\ Max(SentenceMatches(text, max_chars, cur)) = cur}

\* C21 as stated: such a step ends the slice just after the terminator
C21_MatchAtCursorTaken ==
    SplitsText =>
       LET st == Steps(InputText, call.max_chars)
       IN  \A k \in AtCursorSteps(InputText, call.max_chars) :
              st[k].end = st[k].cur + 1

\* C21 amended: such a step ends the slice at the rightmost space of the
\* window
C21_MatchAtCursorSkipped ==
    SplitsText =>
       LET st == Steps(InputText, call.max_chars)
       IN  \A k \in AtCursorSteps(InputText, call.max_chars) :
              /\ At(InputText, st[k].cur + 1) = " "
              /\ st[k].end = Max(SpacesOf(InputText, call.max_chars, st[k].cur))
              /\ st[k].end >= st[k].cur + 1

\* the text starts with a terminator and a space, and the first chunk runs
\* past them to a later space
C21_Witness ==
    /\ SplitsText
    /\ 1 \in AtCursorSteps(InputText, call.max_chars)
    /\ Steps(InputText, call.max_chars)[1].end > 1
    /\ Len(res.chunks) >= 2
    /\ Len(res.chunks[1]) = 3

(***************************************************************************)
(* C22.  A step that takes the hard cut slices exactly maxChars            *)
(* characters; its chunk is the stripped slice, so it has maxChars         *)
(* characters only when the slice neither starts nor ends with whitespace. *)
(***************************************************************************)
\* the steps that take the hard cut
HardCutSteps(text, max_chars) ==
    {k \in BoundarySteps(text, max_chars) :
        NoBoundaryInWindow(text, max_chars, Steps(text, max_chars)[k].cur)}

\* the slice of step k and the chunk it yields (empty: no chunk)
SliceOf(text, max_chars, k) ==
    SubSeq(text, Steps(text, max_chars)[k].cur + 1, Steps(text, max_chars)[k].end)

ChunkOf(text, max_chars, k) == Strip(SliceOf(text, max_chars, k))

\* the place in the result of the chunk of step k
ChunkIndex(text, max_chars, k) ==
    Cardinality({j \in 1..k : ChunkOf(text, max_chars, j) # <<>>})

\* C22 as stated: the chunk of a hard-cut step has exactly maxChars
\* characters
C22_HardCutChunkFull ==
    SplitsText =>
       \A k \in HardCutSteps(InputText, call.max_chars) :
          /\ ChunkOf(InputText, call.max_chars, k) # <<>>
          /\ Len(res.chunks[ChunkIndex(InputText, call.max_chars, k)])
                = call.max_chars

\* C22 amended: the slice has exactly maxChars characters, the chunk is
\* the stripped slice
C22_HardCutSliceFull ==
    SplitsText =>
       \A k \in HardCutSteps(InputText, call.max_chars) :
          LET slice == SliceOf(InputText, call.max_chars, k)
              i     == ChunkIndex(InputText, call.max_chars, k)
              inner == slice[1] \notin Whitespace
                          /\ slice[Len(slice)] \notin Whitespace
          IN  /\ Len(slice) = call.max_chars
              /\ IsBlank(slice) \/ (i \in 1..Len(res.chunks) /\ res.chunks[i] = Strip(slice))
              /\ inner <=> Len(ChunkOf(InputText, call.max_chars, k)) = call.max_chars
              /\ Len(ChunkOf(InputText, call.max_chars, k)) <= call.max_chars

\* a hard cut whose slice starts at a space: the chunk is shorter than
\* maxChars
C22_Witness ==
    /\ SplitsText
    /\ \E k \in HardCutSteps(InputText, call.max_chars) :
          /\ SliceOf(InputText, call.max_chars, k)[1] = " "
          /\ ChunkOf(InputText, call.max_chars, k) # <<>>
          /\ Len(res.chunks[ChunkIndex(InputText, call.max_chars, k)])
                < call.max_chars

(***************************************************************************)
(* C23.  Every iteration of the loop moves the cursor forward and not past *)
(* the end of the text, so the loop makes at most length(text) iterations, *)
(* and the call returns, with the cursor at the end of the text.           *)
(***************************************************************************)
C23_Terminates ==
    /\ [][loop.pc = "loop" /\ loop'.pc = "loop"
             => /\ loop'.current_pos > loop.current_pos
                /\ loop'.current_pos <= Len(InputText)
                /\ loop'.iterations = loop.iterations + 1]_vars
    /\ [](loop.pc # "idle" => loop.iterations <= Len(InputText))
    /\ [](loop.pc = "done" => loop.current_pos = Len(InputText))
    /\ (loop.pc = "loop") ~> (loop.pc = "done")

\* a call that returned after several iterations, with the chunks that the
\* whole function computes
C23_Witness ==
    /\ loop.pc = "done"
    /\ loop.iterations >= 3
    /\ loop.current_pos = Len(InputText)
    /\ res.chunks = split_text_into_chunks(InputText, loop.max_chars)

(***************************************************************************)
(* C24.  When the write loop of split_file fails at chunk file k + 1, the  *)
(* k files written before stay on disk and the result carries              *)
(* files_created = k.                                                      *)
(***************************************************************************)
\* the files i.txt of the output folder after the call
SegmentsOnDisk ==
    IF fs'["story"].kind = "dir"
    THEN {i \in 1..(MaxLen + 1) : SegmentName(i) \in DOMAIN fs'["story"].entries}
    ELSE {}

\* C24 as stated, for a failure after at least one file was written
C24_PartialCountReported ==
    [][ChunkWriteFails /\ ~IsDir(fs, <<"story">>) /\ call'.io.write_fails_at >= 2 =>
          /\ SegmentsOnDisk = 1..(call'.io.write_fails_at - 1)
          /\ "files_created" \in DOMAIN res'
          /\ res'.files_created = call'.io.write_fails_at - 1]_vars

(***************************************************************************)
(* C25.  A discovered file that is blank is skipped by merge_files and     *)
(* does not fail the merge while another segment has content.  On success  *)
(* files_found is the number of discovered files, files_merged lies        *)
(* between 1 and files_found, and their difference is the number of        *)
(* discovered files that gave nothing to the output.                       *)
(***************************************************************************)
\* the discovered files that give nothing to the output of the call: the
\* blank ones and those that cannot be read
SilentSegments ==
    LET d == call'.input_folder[1]
    IN  {n \in NumberedNames(fs, d) :
            IsBlank(fs[d].entries[n]) \/ <<d, n>> \in call'.io.unreadable}

C25_SkippedSegments ==
    [][IsCall("merge_files") /\ IsDir(fs, call'.input_folder) =>
          LET names == NumberedNames(fs, call'.input_folder[1])
          IN  /\ res'.success =>
                    /\ res'.files_found = Cardinality(names)
                    /\ 1 <= res'.files_merged
                    /\ res'.files_merged <= res'.files_found
                    /\ res'.files_found - res'.files_merged
                          = Cardinality(SilentSegments)
              /\ names \ SilentSegments # {} =>
                    res'.success \/ res'.error[1] = "Merge failed: "]_vars

\* a merge without fault that found more files than it merged, and merged
\* several
C25_Witness ==
    /\ call.op = "merge_files"
    /\ call.io = NoFault
    /\ res.success
    /\ res.files_merged >= 2
    /\ res.files_merged < res.files_found

(***************************************************************************)
(* C26.  get_numbered_files returns one pair for each immediate entry      *)
(* whose whole name is digits followed by ".txt", with the integer value   *)
(* of the digits as index, and no other pair; it returns the empty         *)
(* sequence when the folder is missing or is not a directory.              *)
(***************************************************************************)
\* one or more digits, then ".txt", and nothing else
DigitsThenTxt(n) ==
    /\ Len(n) >= 5
    /\ <<n[Len(n) - 3], n[Len(n) - 2], n[Len(n) - 1], n[Len(n)]>> = <<".", "t", "x", "t">>
    /\ \A k \in 1..(Len(n) - 4) :
          n[k] \in {"0", "1", "2", "3", "4", "5", "6", "7", "8", "9"}

C26_DiscoveryFilter ==
    call.op = "get_numbered_files" =>
       LET nf == res.numbered_files
           d  == call.folder_path[1]
       IN  IF fs[d].kind # "dir" THEN nf = <<>>
           ELSE LET wanted == {n \in DOMAIN fs[d].entries : DigitsThenTxt(n)}
                IN  /\ {nf[k] : k \in 1..Len(nf)}
                         = {<<IndexOfName(n), <<d, n>>>> : n \in wanted}
                    /\ Len(nf) = Cardinality(wanted)

\* of 1.txt, sub/2.txt, 1.text and 1.txt.bak only 1.txt is returned
C26_Witness ==
    /\ call.op = "get_numbered_files"
    /\ fs[call.folder_path[1]].kind = "dir"
    /\ NestedName \in DOMAIN fs[call.folder_path[1]].entries
    /\ Cardinality(DOMAIN fs[call.folder_path[1]].entries) = 4
    /\ res.numbered_files = <<<<1, <<call.folder_path[1], SegmentName(1)>>>>>>

(***************************************************************************)
(* C27.  After a successful split_file, the contents of 1.txt..N.txt put   *)
(* end to end without separator hold as many whitespace-separated words as *)
(* the input file.                                                         *)
(***************************************************************************)
\* total_content of test_split_existing_file: the files 1.txt..N.txt read
\* in order and appended to one another
TotalContent ==
    Concat([i \in 1..res.files_created |-> fs["story"].entries[SegmentName(i)]])

\* C27 as stated
C27_WordCountPreserved ==
    call.op = "split_file" /\ res.success /\ Len(InputText) < MaxFileChars =>
       Len(Words(TotalContent)) = Len(Words(InputText))

(***************************************************************************)
(* C28.  A successful split_file writes at least one segment unless the    *)
(* file holds whitespace only; merge_files on the folder it has just       *)
(* created never fails with "No numbered text files found" in the first    *)
(* case and always does in the second.                                     *)
(***************************************************************************)
\* the results merge_files can give on the story folder as it is now
MergeOutcomes ==
    {merge_files(fs, <<"story">>, None, DefaultSeparator, listing, NoFault).res :
        listing \in Listings(fs, "story")}

NothingNumbered(r) ==
    ~r.success /\ r.error[1] = "No numbered text files found in: "

\* C28 as stated
C28_AtLeastOneSegment ==
    FreshSplit /\ Len(InputText) < MaxFileChars =>
       /\ res.files_created >= 1
       /\ \A r \in MergeOutcomes : ~NothingNumbered(r)

\* C28 amended
C28_SegmentUnlessBlank ==
    FreshSplit /\ Len(InputText) < MaxFileChars =>
       IF IsBlank(InputText)
       THEN /\ res.files_created = 0
            /\ \A r \in MergeOutcomes : NothingNumbered(r)
       ELSE /\ res.files_created >= 1
            /\ \A r \in MergeOutcomes : ~NothingNumbered(r)

\* a split into several segments that merge_files then finds
C28_Witness ==
    /\ FreshSplit
    /\ Len(InputText) < MaxFileChars
    /\ res.files_created >= 2
    /\ \A r \in MergeOutcomes : r.success /\ r.files_found = res.files_created

(***************************************************************************)
(* C29.  Repeating a successful merge_files call with the default output   *)
(* on the folder it left returns the same files_found, files_merged and    *)
(* total_chars, since merged.txt is not discovered as a segment; the       *)
(* content of merged.txt is the same too when no two discovered files      *)
(* share an index.                                                         *)
(***************************************************************************)
\* a successful merge with the default output is followed by the same call
RepeatsDefaultMerge ==
    /\ call.op = "merge_files"
    /\ call.output_file = None
    /\ res.success
    /\ IsCall("merge_files")
    /\ call' = call

SameCounts ==
    /\ res'.success
    /\ res'.files_found = res.files_found
    /\ res'.files_merged = res.files_merged
    /\ res'.total_chars = res.total_chars

DistinctIndices(f, d) ==
    \A n \in NumberedNames(f, d), m \in NumberedNames(f, d) :
       IndexOfName(n) = IndexOfName(m) => n = m

\* C29 as stated
C29_MergeIdempotentAlways ==
    [][RepeatsDefaultMerge => SameCounts /\ fs' = fs]_vars

\* C29 amended
C29_MergeIdempotent ==
    [][RepeatsDefaultMerge =>
          /\ SameCounts
          /\ res'.output_file = <<call.input_folder[1], MergedName>>
          /\ MergedName \notin NumberedNames(fs, call.input_folder[1])
          /\ DistinctIndices(fs, call.input_folder[1]) => fs' = fs]_vars

\* the same successful merge made twice on a folder of several segments
\* that holds merged.txt from the first call
C29_Witness ==
    /\ call.op = "merge_files"
    /\ call.output_file = None
    /\ repeated
    /\ res.success
    /\ res.files_merged >= 2
    /\ DistinctIndices(fs, call.input_folder[1])
    /\ MergedName \in DOMAIN fs[call.input_folder[1]].entries

(***************************************************************************)
(* C30.  Every slice but the last covers at least max(1, maxChars - 200)   *)
(* characters of the text, so the number of chunks is at most              *)
(* ceil(length(text) / max(1, maxChars - 200)).                            *)
(***************************************************************************)
\* max(1, maxChars - 200)
LeastSlice(max_chars) == IF max_chars - 200 > 1 THEN max_chars - 200 ELSE 1

C30_LeastProgress ==
    SplitsText =>
       LET st == Steps(InputText, call.max_chars)
           m  == LeastSlice(call.max_chars)
       IN  /\ \A k \in 1..(Len(st) - 1) : st[k].end - st[k].cur >= m
           /\ Len(res.chunks) <= (Len(InputText) + m - 1) \div m

\* maxChars above 200 and a first slice, not the last, of exactly
\* maxChars - 200 characters: it ends at the first position of the window
C30_Witness ==
    /\ SplitsText
    /\ call.max_chars > 200
    /\ Len(Steps(InputText, call.max_chars)) >= 2
    /\ Steps(InputText, call.max_chars)[1].end = call.max_chars - 200
    /\ Len(res.chunks) = 2

====
